---- MODULE Spec2Model ----
(***************************************************************************)
(* forecast_periodic_review_inventory (src/src/utils.py) as a state        *)
(* machine: one call of the simulator, from argument binding to the return *)
(* of the augmented frame or to the Python exception that ends it.         *)
(*                                                                         *)
(* Numbers.  Quantities are fixed-point integers, Scale units to one unit  *)
(* of stock; the inputs are whole units.  A float that may be NaN (the     *)
(* demand, forecast, error and safety-stock columns and the values derived *)
(* from them) is a sequence: <<>> is NaN, <<v>> the number v.  Square      *)
(* roots are rounded down to the fixed-point grid.                         *)
(***************************************************************************)
EXTENDS Integers, Sequences, FiniteSets, TLC

\* ---- bounds of the explored inputs ----
MaxN == 3
MaxLead == 2
MaxReview == 2
\* fixed-point units to one unit of stock
Scale == 10

\* ---- floats with NaN ----
NaN == <<>>
Num(v) == <<v>>
IsNaN(x) == x = <<>>
Val(x) == x[1]
\* Python None for the optional rolling_window argument
None == <<>>

AddF(a, b) == IF IsNaN(a) \/ IsNaN(b) THEN NaN ELSE Num(Val(a) + Val(b))
SubF(a, b) == IF IsNaN(a) \/ IsNaN(b) THEN NaN ELSE Num(Val(a) - Val(b))
\* a * b for two fixed-point numbers
MulF(a, b) == IF IsNaN(a) \/ IsNaN(b) THEN NaN ELSE Num((Val(a) * Val(b)) \div Scale)
\* Python comparisons: any comparison with NaN is False
LeqF(a, b) == IF IsNaN(a) \/ IsNaN(b) THEN FALSE ELSE Val(a) <= Val(b)
LtF(a, b) == IF IsNaN(a) \/ IsNaN(b) THEN FALSE ELSE Val(a) < Val(b)
\* Python max(0, x): 0 is kept unless x > 0 is True, so max(0, NaN) is 0
Max0(x) == IF LtF(Num(0), x) THEN Val(x) ELSE 0

Min(a, b) == IF a <= b THEN a ELSE b
Max(a, b) == IF a >= b THEN a ELSE b

\* Python a % b for b # 0: the result has the sign of b
PyMod(a, b) == IF b > 0 THEN a % b ELSE 0 - ((0 - a) % (0 - b))

RECURSIVE SqrtFrom(_, _)
SqrtFrom(x, r) == IF (r + 1) * (r + 1) > x THEN r ELSE SqrtFrom(x, r + 1)
\* floor of the square root of a natural number
ISqrt(x) == SqrtFrom(x, 0)
\* np.sqrt of a whole number v, as a fixed-point float: NaN below zero
SqrtF(v) == IF v < 0 THEN NaN ELSE Num(ISqrt(v * Scale * Scale))

RECURSIVE SumSeq(_)
SumSeq(s) == IF s = <<>> THEN 0 ELSE Head(s) + SumSeq(Tail(s))

\* Series.dropna() over a sequence of floats: the numbers, in order
RECURSIVE DropNa(_)
DropNa(s) ==
    IF s = <<>> THEN <<>>
    ELSE IF IsNaN(Head(s)) THEN DropNa(Tail(s))
    ELSE <<Val(Head(s))>> \o DropNa(Tail(s))

Squares(s) == [i \in 1..Len(s) |-> s[i] * s[i]]
\* np.std (population, ddof = 0) of a non-empty sequence of numbers
Std(s) == ISqrt(Len(s) * SumSeq(Squares(s)) - SumSeq(s) * SumSeq(s)) \div Len(s)
\* Series.mean(): NaN skipped, NaN when nothing is left
Mean(s) == IF DropNa(s) = <<>> THEN NaN ELSE Num(SumSeq(DropNa(s)) \div Len(DropNa(s)))

\* positions selected by .iloc[start:stop] on n rows (start >= 0); a negative
\* stop counts from the end, as Python slices do
SliceIdx(start, stop, n) ==
    LET hi == IF stop < 0 THEN Max(0, stop + n) ELSE Min(stop, n)
    IN  {i \in 0..(n - 1) : start <= i /\ i < hi}

\* the values of column col at the 0-based positions idx, in order
RECURSIVE ColFrom(_, _, _, _)
ColFrom(frame, col, idx, i) ==
    IF i >= Len(frame) THEN <<>>
    ELSE (IF i \in idx THEN <<frame[i + 1][col]>> ELSE <<>>) \o ColFrom(frame, col, idx, i + 1)
Col(frame, col, idx) == ColFrom(frame, col, idx, 0)
AllIdx(frame) == 0..(Len(frame) - 1)

\* a slip: the first row with a value is taken instead of the last
LastValidIndex_First(frame, col) ==
    LET valid == {i \in AllIdx(frame) : ~IsNaN(frame[i + 1][col])}
    IN  IF valid = {} THEN 0 - 1 ELSE CHOOSE i \in valid : \A j \in valid : i <= j

\* Series.last_valid_index() on the default RangeIndex; None becomes -1 (lines 82-84)
LastValidIndex(frame, col) ==
    LET valid == {i \in AllIdx(frame) : ~IsNaN(frame[i + 1][col])}
    IN  IF valid = {} THEN 0 - 1 ELSE CHOOSE i \in valid : \A j \in valid : j <= i

VARIABLES
    input,                        \* the caller's frame: period, demand, forecast
    lead_time, review_period, safety_factor, initial_inventory,
    use_rolling_ss, rolling_window, include_review_period_in_ss,
    df,                           \* the working copy with the computed columns
    n_periods, last_actual_period, time_factor, base_safety_stock,
    current_ss_target, on_hand_inventory, in_transit_orders,
    t, arriving_order, inventory_position, future_periods, future_demand,
    order_up_to_level, order_qty, demand, stockout, below_ss,
    pc,                           \* position in the function body
    exc,                          \* the exception raised at pc, ending the call, or "none"
    reviewed,                     \* history: periods whose review branch (line 143) ran
    read_idx                      \* history: forecast positions read by line 149 in period t

args == <<input, lead_time, review_period, safety_factor, initial_inventory,
          use_rolling_ss, include_review_period_in_ss>>
setup_locals == <<n_periods, last_actual_period, time_factor, base_safety_stock>>
order_locals == <<inventory_position, future_periods, future_demand,
                  order_up_to_level, order_qty>>
fulfil_locals == <<demand, stockout, below_ss>>
vars == <<args, rolling_window, df, setup_locals, current_ss_target,
          on_hand_inventory, in_transit_orders, t, arriving_order,
          order_locals, fulfil_locals, pc, exc, reviewed, read_idx>>

\* ---- the explored inputs ----
\* sample quantities, in whole units of stock
Demands == {NaN} \cup {Num(q * Scale) : q \in {0, 1}}
Forecasts == {NaN} \cup {Num(q * Scale) : q \in {1}}
Frames ==
    UNION {[1..n -> [period : {0}, demand : Demands, forecast : Forecasts]] : n \in 0..MaxN}
\* the period label of a row is its position (default RangeIndex)
Labelled(f) == [i \in 1..Len(f) |-> [f[i] EXCEPT !.period = i - 1]]
LeadTimes == (0 - 1)..MaxLead
ReviewPeriods == (0 - 2)..MaxReview
InitialInventories == {q * Scale : q \in {0 - 1, 0, 2}}
SafetyFactors == {1}
RollingWindows == {None, Num(0), Num(1), Num(2)}
\* The calls explored.  Without the rolling update: every lead time and review
\* period, valid or not, with either time factor.  With it: the lead times that
\* get past the first arrival, review periods from 0 up, stock that is not
\* negative, the default time factor, and each rolling window.
PlainCalls ==
    [lead_time : LeadTimes, review_period : ReviewPeriods,
     initial_inventory : InitialInventories, use_rolling_ss : {FALSE},
     rolling_window : {None}, include_review_period_in_ss : BOOLEAN]
RollingCalls ==
    [lead_time : 1..MaxLead, review_period : 0..MaxReview,
     initial_inventory : {q \in InitialInventories : q >= 0}, use_rolling_ss : {TRUE},
     rolling_window : RollingWindows, include_review_period_in_ss : {TRUE}]

\* a slip: the missing demand of the copy is filled with zero
NewColumns_FillDemand(row) ==
    [period |-> row.period, demand |-> IF IsNaN(row.demand) THEN Num(0) ELSE row.demand,
     forecast |-> row.forecast,
     order_quantity |-> 0, on_hand_inventory |-> 0, safety_stock_target |-> Num(0),
     below_safety_stock |-> 0, stockout |-> 0, ending_inventory |-> 0,
     error |-> NaN, is_projection |-> 0]

\* the columns added by lines 72-79
NewColumns(row) ==
    [period |-> row.period, demand |-> row.demand, forecast |-> row.forecast,
     order_quantity |-> 0, on_hand_inventory |-> 0, safety_stock_target |-> Num(0),
     below_safety_stock |-> 0, stockout |-> 0, ending_inventory |-> 0,
     error |-> NaN, is_projection |-> 0]

\* a slip: the error is taken as demand - forecast
ErrorColumn_Swapped(frame, last) ==
    [i \in 1..Len(frame) |->
        IF i - 1 <= last
        THEN [frame[i] EXCEPT !.error = SubF(frame[i].demand, frame[i].forecast)]
        ELSE frame[i]]

\* lines 87-89: df.loc[:last, "error"] = forecast - demand (label slice, inclusive)
ErrorColumn(frame, last) ==
    [i \in 1..Len(frame) |->
        IF i - 1 <= last
        THEN [frame[i] EXCEPT !.error = SubF(frame[i].forecast, frame[i].demand)]
        ELSE frame[i]]

\* a slip: the slice starts at the last actual period itself
ProjectionColumn_OffByOne(frame, last) ==
    [i \in 1..Len(frame) |->
        IF i - 1 >= last THEN [frame[i] EXCEPT !.is_projection = 1] ELSE frame[i]]

\* line 92: df.loc[last + 1:, "is_projection"] = 1
ProjectionColumn(frame, last) ==
    [i \in 1..Len(frame) |->
        IF i - 1 >= last + 1 THEN [frame[i] EXCEPT !.is_projection = 1] ELSE frame[i]]

\* a slip: the target is written to every row, the earlier ones included
TargetColumn_All(frame, from, target) ==
    [i \in 1..Len(frame) |-> [frame[i] EXCEPT !.safety_stock_target = target]]

\* lines 115 and 133: df.loc[from:, "safety_stock_target"] = target
TargetColumn(frame, from, target) ==
    [i \in 1..Len(frame) |->
        IF i - 1 >= from THEN [frame[i] EXCEPT !.safety_stock_target = target] ELSE frame[i]]

\* lines 95-101: the error spread the base safety stock is sized from
StdErrorAll(frame) ==
    LET historical_errors == DropNa(Col(frame, "error", AllIdx(frame)))
        avg_forecast == Mean(Col(frame, "forecast", AllIdx(frame)))
    IN  IF Len(historical_errors) > 0 THEN Std(historical_errors)
        ELSE IF LtF(Num(0), avg_forecast) THEN (2 * Val(avg_forecast)) \div 10 ELSE 0

\* lines 104-107
TimeFactor(lt, rp, incl) == IF incl THEN SqrtF(lt + rp) ELSE SqrtF(lt)

\* lines 109 and 132: safety_factor * std * time_factor
SafetyStock(sf, std, tf) == MulF(Num(sf * std), tf)

\* a slip: the newest entry is taken instead of the oldest
ArrivingOrder_Newest(queue) == queue[Len(queue)]
\* line 136: in_transit_orders.pop(0) returns the oldest entry
ArrivingOrder(queue) == Head(queue)

\* a slip: every period is reviewed
ReviewDue_Always(p, rp) == TRUE
\* line 143: is period p a review period
ReviewDue(p, rp) == PyMod(p, rp) = 0

\* a slip: a missing demand falls back on the forecast of the period
RealizedDemand_Fallback(frame, p, last) ==
    IF p <= last /\ ~IsNaN(frame[p + 1].demand)
    THEN frame[p + 1].demand
    ELSE frame[p + 1].forecast
\* lines 162-165: the demand realised in period p
RealizedDemand(frame, p, last) ==
    IF p <= last THEN frame[p + 1].demand ELSE frame[p + 1].forecast

\* a slip: the comparison is strict, a demand equal to the stock is not served
Served_Strict(realized, onhand) == LtF(realized, Num(onhand))
\* line 168: can the demand be served from the stock on hand
Served(realized, onhand) == LeqF(realized, Num(onhand))

\* a slip: stock equal to the target counts as below it
BelowTarget_OrEqual(left, target) == IF LeqF(Num(left), target) THEN 1 ELSE 0
\* line 177: below_ss = 1 if on_hand_inventory < current_ss_target else 0
BelowTarget(left, target) == IF LtF(Num(left), target) THEN 1 ELSE 0

\* a slip: a stockout leaves the stock as it was
Left_NoReset(realized, onhand) ==
    IF Served(realized, onhand) THEN onhand - Val(realized) ELSE onhand
\* a slip: the unmet demand is backordered instead of lost
Left_Backorder(realized, onhand) ==
    IF IsNaN(realized) THEN 0 ELSE onhand - Val(realized)
\* lines 168-173: the stock left after fulfilment; a stockout empties it
Left(realized, onhand) == IF Served(realized, onhand) THEN onhand - Val(realized) ELSE 0

\* the function is entered: no local is bound yet, the frame is not yet copied
Entry ==
    /\ df = <<>>
    /\ n_periods = 0
    /\ last_actual_period = 0
    /\ time_factor = NaN
    /\ base_safety_stock = NaN
    /\ current_ss_target = NaN
    /\ on_hand_inventory = 0
    /\ in_transit_orders = <<>>
    /\ t = 0
    /\ arriving_order = 0
    /\ inventory_position = 0
    /\ future_periods = 0
    /\ future_demand = 0
    /\ order_up_to_level = NaN
    /\ order_qty = 0
    /\ demand = NaN
    /\ stockout = 0
    /\ below_ss = 0
    /\ pc = "start"
    /\ exc = "none"
    /\ reviewed = {}
    /\ read_idx = {}

Init ==
    /\ input \in {Labelled(f) : f \in Frames}
    /\ safety_factor \in SafetyFactors
    /\ \E call \in PlainCalls \cup RollingCalls :
           /\ lead_time = call.lead_time
           /\ review_period = call.review_period
           /\ initial_inventory = call.initial_inventory
           /\ use_rolling_ss = call.use_rolling_ss
           /\ rolling_window = call.rolling_window
           /\ include_review_period_in_ss = call.include_review_period_in_ss
    /\ Entry

\* lines 68-118: copy the frame, add the columns, size the base safety stock
Setup ==
    /\ pc = "start"
    /\ exc = "none"
    /\ LET last == LastValidIndex(input, "demand")
           withErr == ProjectionColumn(
                          ErrorColumn([i \in 1..Len(input) |-> NewColumns(input[i])], last), last)
           tf == TimeFactor(lead_time, review_period, include_review_period_in_ss)
           base == SafetyStock(safety_factor, StdErrorAll(withErr), tf)
       IN  /\ n_periods' = Len(input)
           /\ last_actual_period' = last
           /\ time_factor' = tf
           /\ base_safety_stock' = base
           /\ df' = TargetColumn(withErr, 0, base)
           /\ current_ss_target' = base
    /\ rolling_window' = IF rolling_window = None THEN Num(2 * review_period) ELSE rolling_window
    /\ on_hand_inventory' = initial_inventory
    /\ in_transit_orders' = [i \in 1..lead_time |-> 0]
    /\ pc' = IF Len(input) > 0 THEN "rolling" ELSE "done"
    /\ UNCHANGED <<args, t, arriving_order, order_locals, fulfil_locals, exc, reviewed, read_idx>>

\* lines 122-133: the rolling safety-stock update of period t
RollingUpdate ==
    /\ pc = "rolling"
    /\ exc = "none"
    /\ LET w == Val(rolling_window)
           recent_errors == DropNa(Col(df, "error", SliceIdx(Max(0, t - w), t, n_periods)))
           target == SafetyStock(safety_factor, Std(recent_errors), time_factor)
       IN  IF use_rolling_ss /\ t >= w /\ w = 0
           THEN \* t % rolling_window divides by zero
                /\ pc' = pc
                /\ exc' = "ZeroDivisionError"
                /\ UNCHANGED <<df, current_ss_target>>
           ELSE /\ pc' = "arrive"
                /\ exc' = exc
                /\ IF /\ use_rolling_ss
                      /\ t >= w
                      /\ PyMod(t, w) = 0
                      /\ t <= last_actual_period
                      /\ Len(recent_errors) > 0
                   THEN /\ current_ss_target' = target
                        /\ df' = TargetColumn(df, t, target)
                   ELSE UNCHANGED <<df, current_ss_target>>
    /\ UNCHANGED <<args, rolling_window, setup_locals, on_hand_inventory, in_transit_orders,
                   t, arriving_order, order_locals, fulfil_locals, reviewed, read_idx>>

\* lines 136-140: receive the arriving order, record the pre-demand inventory
ReceiveOrder ==
    /\ pc = "arrive"
    /\ exc = "none"
    /\ IF in_transit_orders = <<>>
       THEN \* pop(0) from an empty list
            /\ pc' = pc
            /\ exc' = "IndexError"
            /\ UNCHANGED <<df, on_hand_inventory, in_transit_orders, arriving_order>>
       ELSE /\ arriving_order' = ArrivingOrder(in_transit_orders)
            /\ in_transit_orders' = Tail(in_transit_orders)
            /\ on_hand_inventory' = on_hand_inventory + ArrivingOrder(in_transit_orders)
            /\ df' = [df EXCEPT ![t + 1].on_hand_inventory =
                                    on_hand_inventory + ArrivingOrder(in_transit_orders)]
            /\ pc' = "place"
            /\ exc' = exc
    /\ UNCHANGED <<args, rolling_window, setup_locals, current_ss_target, t,
                   order_locals, fulfil_locals, reviewed, read_idx>>

\* lines 143-159: place an order on a review period, else push the placeholder
PlaceOrder ==
    /\ pc = "place"
    /\ exc = "none"
    /\ IF review_period = 0
       THEN \* t % review_period divides by zero
            /\ pc' = pc
            /\ exc' = "ZeroDivisionError"
            /\ UNCHANGED <<df, in_transit_orders, order_locals, reviewed, read_idx>>
       ELSE /\ pc' = "fulfil"
            /\ exc' = exc
            /\ IF ReviewDue(t, review_period)
               THEN LET position == on_hand_inventory + SumSeq(in_transit_orders)
                        periods == Min(lead_time + review_period, n_periods - t)
                        idx == SliceIdx(t, t + periods, n_periods)
                        fdemand == SumSeq(DropNa(Col(df, "forecast", idx)))
                        level == AddF(Num(fdemand), current_ss_target)
                        qty == Max0(SubF(level, Num(position)))
                    IN  /\ inventory_position' = position
                        /\ future_periods' = periods
                        /\ future_demand' = fdemand
                        /\ order_up_to_level' = level
                        /\ order_qty' = qty
                        /\ df' = [df EXCEPT ![t + 1].order_quantity = qty]
                        /\ in_transit_orders' = Append(in_transit_orders, qty)
                        /\ reviewed' = reviewed \cup {t}
                        /\ read_idx' = idx
               ELSE /\ in_transit_orders' = Append(in_transit_orders, 0)
                    /\ read_idx' = {}
                    /\ UNCHANGED <<df, order_locals, reviewed>>
    /\ UNCHANGED <<args, rolling_window, setup_locals, current_ss_target, on_hand_inventory,
                   t, arriving_order, fulfil_locals>>

\* lines 162-182 and the loop head: realise the demand, fulfil it, record the period
FulfilDemand ==
    /\ pc = "fulfil"
    /\ exc = "none"
    /\ LET realized == RealizedDemand(df, t, last_actual_period)
           served == Served(realized, on_hand_inventory)
           left == Left(realized, on_hand_inventory)
           below == BelowTarget(left, current_ss_target)
       IN  /\ demand' = realized
           /\ on_hand_inventory' = left
           /\ stockout' = IF served THEN 0 ELSE 1
           /\ below_ss' = below
           /\ df' = [df EXCEPT ![t + 1].ending_inventory = left,
                               ![t + 1].stockout = IF served THEN 0 ELSE 1,
                               ![t + 1].below_safety_stock = below]
    /\ IF t + 1 < n_periods
       THEN /\ t' = t + 1
            /\ pc' = "rolling"
       ELSE /\ t' = t
            /\ pc' = "done"
    /\ UNCHANGED <<args, rolling_window, setup_locals, current_ss_target, in_transit_orders,
                   arriving_order, order_locals, exc, reviewed, read_idx>>

Next == Setup \/ RollingUpdate \/ ReceiveOrder \/ PlaceOrder \/ FulfilDemand

Spec == Init /\ [][Next]_vars

\* ---- the six-period scenario: three actual periods, three projected ----
ScenarioFrame ==
    [i \in 1..6 |->
        [period |-> i - 1,
         demand |-> IF i <= 3 THEN Num(10 * Scale) ELSE NaN,
         forecast |-> Num(10 * Scale)]]

\* lead time 1, review every 3 periods, no stock to start from, no rolling
\* update; the safety factor and the time-factor option are left open
ScenarioInit ==
    /\ input = ScenarioFrame
    /\ lead_time = 1
    /\ review_period = 3
    /\ initial_inventory = 0
    /\ use_rolling_ss = FALSE
    /\ rolling_window = None
    /\ safety_factor \in {0, 1, 2}
    /\ include_review_period_in_ss \in BOOLEAN
    /\ Entry

SpecScenario == ScenarioInit /\ [][Next]_vars

\* ---- how far the run has got ----
\* the call has returned the frame / has been ended by an exception
Returned == pc = "done"
Raised == exc # "none"
Periods == 0..(n_periods - 1)
\* periods whose iteration has run to its end (lines 180-182 executed)
Completed == {s \in Periods : s < t \/ pc = "done"}
\* periods whose pre-demand inventory has been recorded (line 140 executed)
Received == Completed \cup (IF pc \in {"place", "fulfil"} THEN {t} ELSE {})
\* periods whose order step has run (lines 143-159 executed)
Placed == Completed \cup (IF pc = "fulfil" THEN {t} ELSE {})
Row(s) == df[s + 1]
\* a lead time and a review period of one period or more
ValidCadence == lead_time >= 1 /\ review_period >= 1
\* every row of the input has a forecast
ForecastsPresent == \A i \in 1..Len(input) : ~IsNaN(input[i].forecast)
\* a call the documented preconditions allow, with no negative stock to start from
WellFormed == ValidCadence /\ ForecastsPresent /\ initial_inventory >= 0

\* C1 Conservation: in every completed period, stockout is 0 or 1; without a
\* stockout the realized demand is a number and ending_inventory is the recorded
\* pre-demand on_hand_inventory minus it; with a stockout ending_inventory is 0.
C1_Conservation ==
    \A s \in Completed :
        LET realized == IF s <= last_actual_period THEN Row(s).demand ELSE Row(s).forecast
        IN  /\ Row(s).stockout \in {0, 1}
            /\ Row(s).stockout = 0 =>
                   /\ ~IsNaN(realized)
                   /\ Row(s).ending_inventory = Row(s).on_hand_inventory - Val(realized)
            /\ Row(s).stockout = 1 => Row(s).ending_inventory = 0

\* C1 witness: a finished run with a stockout from a positive stock and a
\* period served with stock to spare.
C1_Witness ==
    /\ Returned
    /\ WellFormed
    /\ \E s \in Completed : Row(s).stockout = 1 /\ Row(s).on_hand_inventory > 0
    /\ \E s \in Completed :
           /\ Row(s).stockout = 0
           /\ Row(s).ending_inventory > 0
           /\ Row(s).ending_inventory < Row(s).on_hand_inventory

\* C2 FIFO lead-time law: the pre-demand inventory recorded for period s is the
\* previous ending inventory (initial_inventory for s = 0) plus exactly the
\* order placed lead_time periods earlier, and plus nothing while s < lead_time.
C2_FifoLeadTime ==
    \A s \in Received :
        LET before == IF s = 0 THEN initial_inventory ELSE Row(s - 1).ending_inventory
        IN  IF s >= lead_time
            THEN Row(s).on_hand_inventory = before + Row(s - lead_time).order_quantity
            ELSE Row(s).on_hand_inventory = before

\* C2 witness: a finished run with a lead time above one in which a positive
\* order arrived lead_time periods after it was placed.
C2_Witness ==
    /\ Returned
    /\ WellFormed
    /\ lead_time > 1
    /\ \E s \in Periods :
           /\ s >= lead_time
           /\ Row(s - lead_time).order_quantity > 0
           /\ Row(s).on_hand_inventory > 0

\* C3 Review cadence: a period that is not a multiple of review_period has
\* order_quantity 0 and pushes 0 onto the in-transit queue, and the review
\* branch has run in exactly the multiples of review_period.
C3_ReviewCadence ==
    /\ \A s \in Placed : PyMod(s, review_period) # 0 => Row(s).order_quantity = 0
    /\ (pc = "fulfil" /\ PyMod(t, review_period) # 0) =>
           in_transit_orders[Len(in_transit_orders)] = 0
    /\ reviewed = {s \in Placed : PyMod(s, review_period) = 0}

\* C3 witness: a finished run with review_period above one, a positive order at
\* a later review and a period in between that is no review.
C3_Witness ==
    /\ Returned
    /\ WellFormed
    /\ review_period > 1
    /\ \E s \in Periods : s > 0 /\ s \in reviewed /\ Row(s).order_quantity > 0
    /\ \E s \in Periods : s \notin reviewed

\* C4 as claimed, on calls with a valid lead time and review period and a
\* forecast in every row: the running on-hand inventory, every recorded
\* pre-demand on_hand_inventory and every recorded ending_inventory are >= 0,
\* whatever the initial_inventory.
C4_NeverNegative ==
    (ValidCadence /\ ForecastsPresent) =>
        /\ on_hand_inventory >= 0
        /\ \A s \in Received : Row(s).on_hand_inventory >= 0
        /\ \A s \in Completed : Row(s).ending_inventory >= 0

\* C4 amended: every recorded ending_inventory is >= 0 and so is every
\* pre-demand on_hand_inventory after period 0; with initial_inventory >= 0 the
\* running on-hand inventory and on_hand_inventory[0] are >= 0 as well, while a
\* negative initial_inventory is recorded as it is in on_hand_inventory[0].
C4_NeverNegativeAmended ==
    /\ \A s \in Completed : Row(s).ending_inventory >= 0
    /\ \A s \in Received : s >= 1 => Row(s).on_hand_inventory >= 0
    /\ Completed # {} => on_hand_inventory >= 0
    /\ initial_inventory >= 0 =>
           /\ on_hand_inventory >= 0
           /\ \A s \in Received : Row(s).on_hand_inventory >= 0
    /\ initial_inventory < 0 =>
           \A s \in Received : s = 0 => Row(s).on_hand_inventory = initial_inventory

\* C4 witness: a finished run of two periods or more that started from a negative
\* initial_inventory and had a stockout.
C4_Witness ==
    /\ Returned
    /\ ValidCadence
    /\ ForecastsPresent
    /\ initial_inventory < 0
    /\ n_periods > 1
    /\ \E s \in Completed : Row(s).stockout = 1
    /\ \E s \in Completed : Row(s).on_hand_inventory > 0

\* C5 as claimed: a call with review_period <= 0, lead_time < 0 or an empty
\* series never returns a frame, and the exception that ends it is raised
\* before the period loop is entered.
C5_InvalidParametersFailFast ==
    (review_period <= 0 \/ lead_time < 0 \/ Len(input) = 0) =>
        /\ ~Returned
        /\ Raised => pc = "start"

\* C6 as claimed: with lead_time = 0, a review period of one or more, a
\* non-negative initial inventory and a non-empty series with a forecast in
\* every row, no exception ends the run.
C6_ZeroLeadTimeRuns ==
    (/\ lead_time = 0
     /\ review_period >= 1
     /\ initial_inventory >= 0
     /\ Len(input) > 0
     /\ ForecastsPresent) => ~Raised

C8_ErrorDefinedness ==
    (pc # "start" /\ WellFormed) =>
        /\ \A s \in Periods :
               /\ ~IsNaN(Row(s).error) <=> s <= last_actual_period
               /\ ~IsNaN(Row(s).error) =>
                      Row(s).error = SubF(input[s + 1].forecast, input[s + 1].demand)
        /\ (\A s \in Periods : IsNaN(input[s + 1].demand)) =>
               \A s \in Periods : IsNaN(Row(s).error)

\* C8 amended: error[s] is defined exactly when s <= last_actual_period and the
\* demand and the forecast of s are both present; where defined it equals
\* forecast[s] - demand[s]; it is defined nowhere when every demand is missing.
C8_ErrorDefinednessAmended ==
    pc # "start" =>
        /\ \A s \in Periods :
               /\ ~IsNaN(Row(s).error) <=>
                      /\ s <= last_actual_period
                      /\ ~IsNaN(input[s + 1].demand)
                      /\ ~IsNaN(input[s + 1].forecast)
               /\ ~IsNaN(Row(s).error) =>
                      Val(Row(s).error) = Val(input[s + 1].forecast) - Val(input[s + 1].demand)
        /\ (\A s \in Periods : IsNaN(input[s + 1].demand)) =>
               \A s \in Periods : IsNaN(Row(s).error)

\* C8 witness: a returned frame with a defined non-zero error, a row at or
\* before last_actual_period whose demand is missing and a projected row.
C8_Witness ==
    /\ Returned
    /\ WellFormed
    /\ \E s \in Periods : ~IsNaN(Row(s).error) /\ Row(s).error # Num(0)
    /\ \E s \in Periods : s <= last_actual_period /\ IsNaN(Row(s).demand) /\ IsNaN(Row(s).error)
    /\ \E s \in Periods : s > last_actual_period /\ IsNaN(Row(s).error)

\* C9 as claimed, on series with a forecast in every row: right after the order
\* step of a period t whose review branch ran,
\* future_periods = min(lead_time + review_period, n - t), the forecast
\* positions read are exactly t .. t + future_periods - 1, future_demand is the
\* sum of the forecasts there, and every position read is below n.
C9_HorizonClipping ==
    (pc = "fulfil" /\ t \in reviewed /\ ForecastsPresent /\ initial_inventory >= 0) =>
        /\ future_periods = Min(lead_time + review_period, n_periods - t)
        /\ read_idx = t..(t + future_periods - 1)
        /\ future_demand = SumSeq(DropNa(Col(df, "forecast", t..(t + future_periods - 1))))
        /\ \A i \in read_idx : i < n_periods

\* C10 as claimed: a call with a valid lead time, review period and initial
\* inventory whose series has a row without a forecast never returns a frame.
C10_MissingForecastIsError ==
    (ValidCadence /\ initial_inventory >= 0 /\ ~ForecastsPresent) => ~Returned

\* C11 Scenario: in the six-period scenario last_actual_period is 2,
\* is_projection is 0,0,0,1,1,1 and, among the periods whose order step has
\* run, order_quantity is non-zero exactly at periods 0 and 3.
C11_Scenario ==
    pc # "start" =>
        /\ last_actual_period = 2
        /\ \A s \in Periods : Row(s).is_projection = (IF s <= 2 THEN 0 ELSE 1)
        /\ \A s \in Placed : Row(s).order_quantity # 0 <=> s \in {0, 3}

\* C11 witness: the scenario run has returned, with all six periods recorded
\* and positive orders at periods 0 and 3.
C11_Witness ==
    /\ Returned
    /\ input = ScenarioFrame
    /\ Completed = 0..5
    /\ Row(0).order_quantity > 0
    /\ Row(3).order_quantity > 0

\* C12 No side effects on input: no step of the call changes the caller's
\* frame, and from the copy on the working frame has one row per input row
\* with the period, demand and forecast of that row.
C12_NoSideEffects ==
    [][/\ input' = input
       /\ pc' # "start" =>
              /\ Len(df') = Len(input')
              /\ \A i \in 1..Len(input') :
                     /\ df'[i].period = input'[i].period
                     /\ df'[i].demand = input'[i].demand
                     /\ df'[i].forecast = input'[i].forecast]_vars

\* C12 witness: a returned frame whose simulation columns were written while
\* its demand column still holds a gap and a number, as the input does.
C12_Witness ==
    /\ Returned
    /\ WellFormed
    /\ \E i \in 1..Len(input) : IsNaN(input[i].demand) /\ IsNaN(df[i].demand)
    /\ \E i \in 1..Len(input) : ~IsNaN(input[i].demand) /\ df[i].error = Num(0)
    /\ \E s \in Completed : Row(s).order_quantity > 0

\* C14 as claimed, on calls with a review period of one or more, a forecast in
\* every row and no negative stock to start from: the in-transit queue holds
\* lead_time entries at the start of an iteration (before the pop) and at its
\* end (after the push), and lead_time - 1 entries in between.
C14_QueueLength ==
    (review_period >= 1 /\ ForecastsPresent /\ initial_inventory >= 0) =>
        /\ (pc \in {"rolling", "arrive", "fulfil"} \/ (pc = "done" /\ n_periods > 0)) =>
               Len(in_transit_orders) = lead_time
        /\ pc = "place" => Len(in_transit_orders) = lead_time - 1

\* C15 as claimed, on series with a forecast in every row and no negative stock
\* to start from: right after the order step of a period t whose review branch
\* ran, inventory_position is the recorded pre-demand stock of t plus the
\* orders placed in the lead_time - 1 periods before t, order_quantity[t] is
\* max(0, future_demand + current target - inventory_position) and is not
\* negative, and the stock on hand plus everything in transit is at or above
\* the order-up-to level.
C15_OrderUpTo ==
    (pc = "fulfil" /\ t \in reviewed /\ ForecastsPresent /\ initial_inventory >= 0) =>
        LET queued == Max(0, t - lead_time + 1)..(t - 1)
            position == Row(t).on_hand_inventory
                            + SumSeq([i \in 1..Cardinality(queued) |->
                                         Row(Max(0, t - lead_time + 1) + i - 1).order_quantity])
            level == AddF(Num(future_demand), current_ss_target)
        IN  /\ inventory_position = position
            /\ Row(t).order_quantity = Max0(SubF(level, Num(position)))
            /\ Row(t).order_quantity >= 0
            /\ LeqF(level, Num(on_hand_inventory + SumSeq(in_transit_orders)))

ArrivingAt(s) == IF s >= lead_time THEN Row(s - lead_time).order_quantity ELSE 0

C18_RollingTrigger ==
    [][(pc = "rolling" /\ exc = "none" /\ WellFormed) =>
           LET w == Val(rolling_window)
               window == DropNa(Col(df, "error", SliceIdx(Max(0, t - w), t, n_periods)))
           IN  /\ exc' = "none"
               /\ pc' = "arrive"
               /\ IF /\ use_rolling_ss
                     /\ t >= w
                     /\ PyMod(t, w) = 0
                     /\ t <= last_actual_period
                     /\ Len(window) > 0
                  THEN current_ss_target' =
                           SafetyStock(safety_factor, Std(window), time_factor)
                  ELSE current_ss_target' = current_ss_target]_vars

\* C19 Forward-only safety-stock target: no step changes safety_stock_target
\* of a period before the current one, and only the rolling step changes the
\* column at all; from the setup on, the row of the current period and of
\* every later period holds the current target, so each row is left holding
\* the target that was current in its iteration; with use_rolling_ss false
\* every row holds base_safety_stock.
C19_ForwardOnlyTarget ==
    [][/\ \A s \in Periods :
              (s < t \/ pc # "rolling") =>
                  df'[s + 1].safety_stock_target = df[s + 1].safety_stock_target
       /\ pc' # "start" =>
              /\ \A i \in 1..Len(df') :
                     i - 1 >= t' => df'[i].safety_stock_target = current_ss_target'
              /\ ~use_rolling_ss' =>
                     \A i \in 1..Len(df') : df'[i].safety_stock_target = base_safety_stock']_vars

\* C19 witness: a finished run with the rolling update on in which a later
\* period holds another target than the period before it, and the first
\* period still holds the base safety stock.
C19_Witness ==
    /\ Returned
    /\ WellFormed
    /\ use_rolling_ss
    /\ n_periods >= 2
    /\ Row(0).safety_stock_target = base_safety_stock
    /\ \E s \in Completed :
           /\ s >= 1
           /\ Row(s).safety_stock_target # Row(s - 1).safety_stock_target
           /\ Row(s).safety_stock_target = current_ss_target

\* C20 Below-target flag: in every completed period below_safety_stock is 1
\* exactly when ending_inventory, the stock after fulfilment, is strictly less
\* than the safety-stock target recorded for the period, and a stockout period
\* with a positive target is flagged.
C20_BelowTargetFlag ==
    \A s \in Completed :
        LET target == Row(s).safety_stock_target
        IN  /\ Row(s).below_safety_stock \in {0, 1}
            /\ Row(s).below_safety_stock = 1 <=>
                   (~IsNaN(target) /\ Row(s).ending_inventory < Val(target))
            /\ (Row(s).stockout = 1 /\ ~IsNaN(target) /\ Val(target) > 0) =>
                   Row(s).below_safety_stock = 1

\* C20 witness: a finished run with a positive target in which one period
\* started at or above the target, was served, ended below it and is flagged,
\* and one ended at or above the target and is not.
C20_Witness ==
    /\ Returned
    /\ WellFormed
    /\ \E s \in Completed :
           /\ Row(s).stockout = 0
           /\ LeqF(Row(s).safety_stock_target, Num(Row(s).on_hand_inventory))
           /\ LtF(Num(Row(s).ending_inventory), Row(s).safety_stock_target)
           /\ Row(s).below_safety_stock = 1
    /\ \E s \in Completed :
           /\ LtF(Num(0), Row(s).safety_stock_target)
           /\ LeqF(Row(s).safety_stock_target, Num(Row(s).ending_inventory))
           /\ Row(s).below_safety_stock = 0
====
